---- MODULE Spec2Model ----
(***************************************************************************)
(* Model of auth_framework.py: the authentication workflow of main(),      *)
(* its three factors (verify_pin, simulate_biometric, simulate_otp), the   *)
(* audit log file written by log_audit / forensic_module, and the router.  *)
(*                                                                         *)
(* One run of main() is one session.  Sessions are separate runs of the    *)
(* program; they share nothing but the clock and the log file, and they    *)
(* may run one after another or interleaved.  Every local variable of the  *)
(* code (attempts, lockout_start, role, token) is therefore per session.   *)
(* A step of a session runs from one blocking input() to the next.         *)
(***************************************************************************)
EXTENDS Integers, Sequences, FiniteSets, TLC

(* ------------------------------ bounds --------------------------------- *)
\* Number of runs of main() that are modelled.
NumSessions == 2
\* The clock stops advancing at MaxTime seconds.
MaxTime == 30
\* time.time() is sampled every TickSeconds seconds.
TickSeconds == 15

(* ------------------------- program constants --------------------------- *)
MAX_ATTEMPTS == 3
LOCKOUT_DURATION == 30

\* Python's None, for a local that is unset or whose frame does not exist.
None == -1

Sessions == 1 .. NumSessions

(* ------------------------------ inputs --------------------------------- *)
\* What the user may type at "Enter username: ".
UsernameInputs == {"admin", "analyst", "guest", "ghost"}
\* What the user may type at "Enter PIN: ".
PinInputs == {"4269", "3141", "1234", "0000"}
\* What the user may type at the biometric prompt.
ScanInputs == {"scan", "SCAN", "face"}
\* Values random.randint(100000, 999999) may return: both ends of the range.
OtpCodes == {100000, 999999}
\* What the user may type at "Enter OTP: ".
OtpInputs == {"100000", "999999", "000000"}
\* What the user may type at the two prompts of forensic_module.
EvidenceInputs == {"EV-1"}
NoteInputs == {"sealed"}

(* --------------------------- pure functions ---------------------------- *)
\* hashlib.sha256(pin.encode()).hexdigest() on the PINs of the model.
Sha256Hex(pin) ==
    CASE pin = "4269" -> "d5358ec522f20c55c089c1c659977c1528566c9c9428ae56f7c415d1158ecbf9"
      [] pin = "3141" -> "51c94a510b50e68f490e35edd977845f9b008e3bb1a5c7f0d8eecf8b0b9794bf"
      [] pin = "1234" -> "03ac674216f3e15c761ee1a5e255f067953623c8b388b4459e13f978d7c846f4"
      [] pin = "0000" -> "9af15b336e6a9619928537df30b2e6a2376569fcf9d7e773eccede65606529a0"

hash_pin(pin) == Sha256Hex(pin)

USER_DB ==
    [u \in {"admin", "analyst", "guest"} |->
        CASE u = "admin" -> Sha256Hex("4269")
          [] u = "analyst" -> Sha256Hex("3141")
          [] u = "guest" -> Sha256Hex("1234")]

USER_ROLES ==
    [u \in {"admin", "analyst", "guest"} |->
        CASE u = "admin" -> "Admin"
          [] u = "analyst" -> "Analyst"
          [] u = "guest" -> "Guest"]

\* str.lower() on the biometric inputs of the model.
Lower(scan) == IF scan = "SCAN" THEN "scan" ELSE scan

\* `username not in USER_DB` is false: main goes on to verify_pin.
KnownUser_AcceptsAll(u) == TRUE
KnownUser_NonEmpty(u) == u # ""
KnownUser(u) == u \in DOMAIN USER_DB

\* `hash_pin(pin) == USER_DB[username]`
PinMatches_AnyUser(u, pin) == \E v \in DOMAIN USER_DB : hash_pin(pin) = USER_DB[v]
PinMatches(u, pin) == hash_pin(pin) = USER_DB[u]

\* The PIN each entry of USER_DB is built from (lines 32-34).
CorrectPin(u) ==
    CASE u = "admin" -> "4269"
      [] u = "analyst" -> "3141"
      [] u = "guest" -> "1234"

\* `if attempts >= MAX_ATTEMPTS` after a wrong PIN (line 74).
LockoutReached_OffByOne(a) == a > MAX_ATTEMPTS
LockoutReached(a) == a >= MAX_ATTEMPTS

\* `lockout_start and time.time() - lockout_start < LOCKOUT_DURATION`; None
\* and 0 are the values of lockout_start that Python takes as false.
LockoutActive_Always(start, t) == TRUE
LockoutActive(start, t) ==
    start # None /\ start # 0 /\ t - start < LOCKOUT_DURATION

\* `scan.lower() != "scan"` is the failure test of simulate_biometric.
ScanAccepted(scan) == Lower(scan) = "scan"

\* `entered != otp` is the failure test of simulate_otp; otp = str(randint).
OtpAccepted(code, entered) == entered = ToString(code)

\* Where main goes after each factor returns ok (True) or not (False).
AfterVerifyPin(ok) == IF ok THEN "simulate_biometric" ELSE "DENIED"

AfterBiometric_IgnoresResult(ok) == "simulate_otp"
AfterBiometric_Retries(ok) == IF ok THEN "simulate_otp" ELSE "simulate_biometric"
AfterBiometric(ok) == IF ok THEN "simulate_otp" ELSE "DENIED"

AfterOtp_IgnoresResult(ok) == "mint"
AfterOtp_Retries(ok) == IF ok THEN "mint" ELSE "simulate_otp"
AfterOtp(ok) == IF ok THEN "mint" ELSE "DENIED"

\* `role = USER_ROLES[username]` (line 153), for a username that has a role.
RoleOf_AlwaysAdmin(u) == "Admin"
RoleOf(u) == USER_ROLES[u]

\* `elif role == "Analyst"` in route_to_module: the branch that calls
\* forensic_module.
RoutesToForensic_AnyRole(r) == TRUE
RoutesToForensic(r) == r = "Analyst"

\* str(uuid.uuid4()): n identifiers were generated before this one.  A
\* version-4 UUID is 122 random bits; the model takes the identifier to be
\* new, which is the contract of a UUID.
Uuid4_Constant(n) == 1
Uuid4(n) == n + 1

\* `status = "SUCCESS" if success else "FAILURE"`
Status(success) == IF success THEN "SUCCESS" ELSE "FAILURE"

\* The line log_audit builds, as the fields it is formatted from.
AuditEntry(u, r, success, tok, t) ==
    [tag |-> "AUDIT", status |-> Status(success), username |-> u, role |-> r,
     timestamp |-> t, token |-> tok]

\* The line forensic_module builds.
ForensicEntry(evidence_id, note) ==
    [tag |-> "FORENSIC", evidence_id |-> evidence_id, note |-> note]

\* open(LOG_FILE, "a") raises OSError when the file cannot be opened.
SinkRaises_Swallowed(writable) == FALSE
SinkRaises(writable) == ~writable

\* f.write(entry + "\n") on a file opened for appending.
log_to_file_Dropped(file, entry) == file
log_to_file_Prepends(file, entry) == <<entry>> \o file
log_to_file_Truncates(file, entry) == <<entry>>
log_to_file(file, entry) == Append(file, entry)

(* ------------------------------- state --------------------------------- *)
VARIABLES
    pc,             \* per session: where main() stands
    username,       \* per session: main's local `username`
    attempts,       \* per session: verify_pin's local `attempts`
    lockout_start,  \* per session: verify_pin's local `lockout_start`
    role,           \* per session: main's local `role`
    token,          \* per session: main's local `token`
    log,            \* the lines of audit_log.txt
    now,            \* time.time() / datetime.now(), in seconds
    minted,         \* history: how many UUIDs were generated
    writer,         \* history: the session that wrote each line of `log`
    returned,       \* history, per session: the factor calls that returned
    pinReads,       \* history, per session: PINs read and compared
    pinRight,       \* history, per session: was each PIN read the user's PIN
    scanReads,      \* history, per session: biometric inputs read
    otpReads,       \* history, per session: OTP inputs read
    lockedAt,       \* history, per session: when "Account locked" was announced
    routed          \* history, per session: the role given to route_to_module

vars == <<pc, username, attempts, lockout_start, role, token, log, now,
          minted, writer, returned, pinReads, pinRight, scanReads, otpReads,
          lockedAt, routed>>

locals == <<attempts, lockout_start>>
factorHistory == <<returned, pinReads, pinRight, scanReads, otpReads, lockedAt>>
logVars == <<log, writer>>

Init ==
    /\ pc = [s \in Sessions |-> "start"]
    /\ username = [s \in Sessions |-> ""]
    /\ attempts = [s \in Sessions |-> None]
    /\ lockout_start = [s \in Sessions |-> None]
    /\ role = [s \in Sessions |-> ""]
    /\ token = [s \in Sessions |-> None]
    /\ log = << >>
    /\ now = 0
    /\ minted = 0
    /\ writer = << >>
    /\ returned = [s \in Sessions |-> << >>]
    /\ pinReads = [s \in Sessions |-> 0]
    /\ pinRight = [s \in Sessions |-> << >>]
    /\ scanReads = [s \in Sessions |-> 0]
    /\ otpReads = [s \in Sessions |-> 0]
    /\ lockedAt = [s \in Sessions |-> None]
    /\ routed = [s \in Sessions |-> ""]

Ret(fn, ok) == [fn |-> fn, ok |-> ok]

(* ------------------------------ actions -------------------------------- *)
\* main, lines 141-146: read the username; an unknown user ends the run,
\* a known one enters verify_pin (lines 59-60 set its locals).
Main(s) ==
    /\ pc[s] = "start"
    /\ \E u \in UsernameInputs :
        /\ username' = [username EXCEPT ![s] = u]
        /\ IF ~KnownUser(u)
           THEN /\ pc' = [pc EXCEPT ![s] = "DENIED"]
                /\ UNCHANGED locals
           ELSE /\ pc' = [pc EXCEPT ![s] = "verify_pin"]
                /\ attempts' = [attempts EXCEPT ![s] = 0]
                /\ lockout_start' = [lockout_start EXCEPT ![s] = None]
    /\ UNCHANGED <<role, token, log, now, minted, writer, factorHistory, routed>>

\* verify_pin returns `ok` to main (lines 146-147).  The locals of the
\* call keep the values they had at the return; nothing reads them again.
VerifyPinReturn(s, ok) ==
    /\ pc' = [pc EXCEPT ![s] = AfterVerifyPin(ok)]
    /\ returned' = [returned EXCEPT ![s] = Append(@, Ret("verify_pin", ok))]

\* verify_pin, lines 62-78: one evaluation of the loop head and one pass
\* through the loop body.
VerifyPin(s) ==
    /\ pc[s] = "verify_pin"
    /\ IF ~(attempts[s] < MAX_ATTEMPTS)
       THEN \* line 78
            /\ VerifyPinReturn(s, FALSE)
            /\ UNCHANGED <<locals, pinReads, pinRight, lockedAt>>
       ELSE IF LockoutActive(lockout_start[s], now)
       THEN \* lines 64-65
            /\ VerifyPinReturn(s, FALSE)
            /\ UNCHANGED <<locals, pinReads, pinRight, lockedAt>>
       ELSE \E pin \in PinInputs :
            /\ pinReads' = [pinReads EXCEPT ![s] = @ + 1]
            /\ pinRight' = [pinRight EXCEPT ![s] =
                  Append(@, username[s] \in DOMAIN USER_DB
                            /\ pin = CorrectPin(username[s]))]
            /\ IF ~(username[s] \in DOMAIN USER_DB)
               THEN \* line 68 raises KeyError, which nothing catches
                    /\ pc' = [pc EXCEPT ![s] = "KeyError"]
                    /\ UNCHANGED <<locals, returned, lockedAt>>
               ELSE IF PinMatches(username[s], pin)
               THEN \* line 69
                    /\ VerifyPinReturn(s, TRUE)
                    /\ UNCHANGED <<locals, lockedAt>>
               ELSE \* line 71
                    /\ attempts' = [attempts EXCEPT ![s] = @ + 1]
                    /\ IF LockoutReached(attempts'[s])
                       THEN \* lines 74-77
                            /\ lockout_start' = [lockout_start EXCEPT ![s] = now]
                            /\ lockedAt' = [lockedAt EXCEPT ![s] = now]
                            /\ VerifyPinReturn(s, FALSE)
                       ELSE \* back to the loop head
                            /\ UNCHANGED <<pc, lockout_start, returned, lockedAt>>
    /\ UNCHANGED <<username, role, token, log, now, minted, writer,
                   scanReads, otpReads, routed>>

\* log_to_file, lines 52-55, called by session s: the line reaches the file
\* when the file can be opened for appending, and not otherwise.
WriteLine(s, writable, entry) ==
    /\ log' = IF writable THEN log_to_file(log, entry) ELSE log
    /\ writer' = IF Len(log') > Len(log) THEN Append(writer, s) ELSE writer

\* main, lines 148-149, with simulate_biometric, lines 80-89.
SimulateBiometric(s) ==
    /\ pc[s] = "simulate_biometric"
    /\ \E scan \in ScanInputs :
        /\ pc' = [pc EXCEPT ![s] = AfterBiometric(ScanAccepted(scan))]
        /\ returned' = [returned EXCEPT
              ![s] = Append(@, Ret("simulate_biometric", ScanAccepted(scan)))]
    /\ scanReads' = [scanReads EXCEPT ![s] = @ + 1]
    /\ UNCHANGED <<username, locals, role, token, log, now, minted, writer,
                   pinReads, pinRight, otpReads, lockedAt, routed>>

\* main, lines 150-151, with simulate_otp, lines 91-102.
SimulateOtp(s) ==
    /\ pc[s] = "simulate_otp"
    /\ \E code \in OtpCodes, entered \in OtpInputs :
        /\ pc' = [pc EXCEPT ![s] = AfterOtp(OtpAccepted(code, entered))]
        /\ returned' = [returned EXCEPT
              ![s] = Append(@, Ret("simulate_otp", OtpAccepted(code, entered)))]
    /\ otpReads' = [otpReads EXCEPT ![s] = @ + 1]
    /\ UNCHANGED <<username, locals, role, token, log, now, minted, writer,
                   pinReads, pinRight, scanReads, lockedAt, routed>>

\* main, lines 153-155, with log_audit, lines 126-132: look the role up,
\* mint the token, write the audit line.  An OSError of log_to_file is not
\* caught anywhere, so it ends main.
MintAndLog(s) ==
    /\ pc[s] = "mint"
    /\ IF ~(username[s] \in DOMAIN USER_ROLES)
       THEN \* line 153 raises KeyError
            /\ pc' = [pc EXCEPT ![s] = "KeyError"]
            /\ UNCHANGED <<role, token, minted, logVars>>
       ELSE /\ role' = [role EXCEPT ![s] = RoleOf(username[s])]
            /\ token' = [token EXCEPT ![s] = Uuid4(minted)]
            /\ minted' = minted + 1
            /\ \E writable \in BOOLEAN :
                /\ WriteLine(s, writable,
                             AuditEntry(username[s], role'[s], TRUE,
                                        token'[s], now))
                /\ pc' = [pc EXCEPT ![s] = IF SinkRaises(writable)
                                           THEN "error" ELSE "granted"]
    /\ UNCHANGED <<username, locals, now, factorHistory, routed>>

\* main, lines 157-161, with route_to_module, lines 112-124, and
\* forensic_module, lines 104-110, which the Analyst role is routed to.
RouteToModule(s) ==
    /\ pc[s] = "granted"
    /\ routed' = [routed EXCEPT ![s] = role[s]]
    /\ IF RoutesToForensic(role[s])
       THEN \E evidence_id \in EvidenceInputs, note \in NoteInputs,
               writable \in BOOLEAN :
                /\ WriteLine(s, writable, ForensicEntry(evidence_id, note))
                /\ pc' = [pc EXCEPT ![s] = IF SinkRaises(writable)
                                           THEN "error" ELSE "done"]
       ELSE /\ pc' = [pc EXCEPT ![s] = "done"]
            /\ UNCHANGED logVars
    /\ UNCHANGED <<username, locals, role, token, now, minted, factorHistory>>

\* Time passes.
Tick ==
    /\ now + TickSeconds <= MaxTime
    /\ now' = now + TickSeconds
    /\ UNCHANGED <<pc, username, locals, role, token, logVars, minted,
                   factorHistory, routed>>

Next ==
    \/ \E s \in Sessions : Main(s)
    \/ \E s \in Sessions : VerifyPin(s)
    \/ \E s \in Sessions : SimulateBiometric(s)
    \/ \E s \in Sessions : SimulateOtp(s)
    \/ \E s \in Sessions : MintAndLog(s)
    \/ \E s \in Sessions : RouteToModule(s)
    \/ Tick

Spec == Init /\ [][Next]_vars

(* ------------------------ history, read by claims ---------------------- *)
\* The secret, biometric and OTP checks of session s all returned True.
AllPassed(s) ==
    /\ Len(returned[s]) = 3
    /\ \A i \in 1 .. 3 : returned[s][i].ok

\* Some factor of session s returned False.
SomeFailed(s) == \E i \in DOMAIN returned[s] : ~returned[s][i].ok

\* The lines of the log that session s wrote as audit entries with `status`.
AuditLines(s, status) ==
    {i \in DOMAIN log :
        writer[i] = s /\ log[i].tag = "AUDIT" /\ log[i].status = status}

\* verify_pin of session s returned True.
PinAccepted(s) ==
    \E i \in DOMAIN returned[s] :
        returned[s][i].fn = "verify_pin" /\ returned[s][i].ok

\* Wrong PINs of session s that were compared against the stored hash.
WrongPins(s) == IF PinAccepted(s) THEN pinReads[s] - 1 ELSE pinReads[s]

RECURSIVE SumWrongPins(_, _)
SumWrongPins(S, p) ==
    IF S = {} THEN 0
    ELSE LET s == CHOOSE x \in S : TRUE
         IN (IF username[s] = p THEN WrongPins(s) ELSE 0)
            + SumWrongPins(S \ {s}, p)

\* "Account locked" was announced for principal p less than LOCKOUT_DURATION
\* seconds ago.
PrincipalLocked(p) ==
    \E t \in Sessions :
        /\ username[t] = p
        /\ lockedAt[t] # None
        /\ now - lockedAt[t] < LOCKOUT_DURATION

FactorOrder == <<"verify_pin", "simulate_biometric", "simulate_otp">>

(* ------------------------------- claims -------------------------------- *)
\* C1: in every session the factors return in the order verify_pin,
\* simulate_biometric, simulate_otp, each at most once, and a factor has run
\* only if every factor before it returned True: after a failed verify_pin
\* no biometric or OTP input is read, after a failed biometric no OTP input.
C1_FactorOrder ==
    \A s \in Sessions :
        /\ Len(returned[s]) <= 3
        /\ \A i \in DOMAIN returned[s] :
            /\ returned[s][i].fn = FactorOrder[i]
            /\ i < Len(returned[s]) => returned[s][i].ok
        /\ scanReads[s] > 0 => Len(returned[s]) >= 2 /\ returned[s][1].ok
        /\ otpReads[s] > 0 =>
              Len(returned[s]) = 3 /\ returned[s][1].ok /\ returned[s][2].ok
        /\ pc[s] = "simulate_otp" => AllPassed(s) \/
              (Len(returned[s]) = 2 /\ returned[s][1].ok /\ returned[s][2].ok)

\* guest passed the PIN, failed the biometric scan, and was denied with no
\* OTP read.
C1_Witness ==
    \E s \in Sessions :
        /\ username[s] = "guest"
        /\ pc[s] = "DENIED"
        /\ Len(returned[s]) = 2
        /\ returned[s][1].ok /\ ~returned[s][2].ok
        /\ otpReads[s] = 0

\* C2: a session that ended DENIED has written exactly one audit entry with
\* outcome FAILURE and no token.
C2_DeniedLogsOneFailure ==
    \A s \in Sessions :
        pc[s] = "DENIED" =>
            /\ Cardinality(AuditLines(s, "FAILURE")) = 1
            /\ \A i \in AuditLines(s, "FAILURE") : log[i].token = None

C4_LockedOutNoCompare ==
    [][\A s \in Sessions :
          (pc[s] = "verify_pin" /\ PrincipalLocked(username[s])) =>
              pinReads'[s] = pinReads[s]]_vars

\* C5: a token exists only in a session whose three factors all passed, a
\* logged token was logged by such a session, and the tokens of different
\* sessions differ.
C5_TokenOnlyOnFullPass ==
    /\ \A s \in Sessions : token[s] # None => AllPassed(s)
    /\ \A s \in Sessions : (~AllPassed(s) \/ pc[s] = "mint") => token[s] = None
    /\ \A i \in DOMAIN log :
          (log[i].tag = "AUDIT" /\ log[i].token # None) => AllPassed(writer[i])
    /\ \A s, t \in Sessions :
          (s # t /\ token[s] # None /\ token[t] # None) => token[s] # token[t]

\* Two sessions hold a token each.
C5_Witness ==
    \E s, t \in Sessions : s # t /\ token[s] # None /\ token[t] # None

\* C6: a session whose username is not in USER_DB is denied with no factor
\* invoked, no input of a factor read and no attempt counter or lockout
\* start created; the step that denies it changes no counter and no lockout
\* state of any session.
C6_UnknownState ==
    \A s \in Sessions :
        (pc[s] # "start" /\ username[s] \notin DOMAIN USER_DB) =>
            /\ pc[s] = "DENIED"
            /\ returned[s] = << >>
            /\ pinReads[s] = 0 /\ scanReads[s] = 0 /\ otpReads[s] = 0
            /\ attempts[s] = None /\ lockout_start[s] = None
            /\ lockedAt[s] = None

C6_UnknownStep ==
    \A s \in Sessions :
        (pc[s] = "start" /\ pc'[s] # "start"
            /\ username'[s] \notin DOMAIN USER_DB) =>
                UNCHANGED <<attempts, lockout_start, lockedAt, pinReads>>

C6_UnknownPrincipal == []C6_UnknownState /\ [][C6_UnknownStep]_vars

\* ghost is denied while another session is in the middle of its PIN
\* attempts.
C6_Witness ==
    \E s, t \in Sessions :
        /\ username[s] = "ghost" /\ pc[s] = "DENIED"
        /\ pc[t] = "verify_pin" /\ attempts[t] = 2

\* C7: the router gets the role only in a session that holds a token and
\* has its SUCCESS entry with that token in the log; the entry is in the log
\* before the step that invokes route_to_module; a session that failed a
\* factor or was denied never reaches the router.
C7_RoutedState ==
    \A s \in Sessions :
        /\ routed[s] # "" =>
              /\ token[s] # None
              /\ routed[s] = role[s]
              /\ \E i \in AuditLines(s, "SUCCESS") : log[i].token = token[s]
        /\ AuditLines(s, "SUCCESS") # {} => token[s] # None
        /\ (pc[s] = "DENIED" \/ SomeFailed(s)) => routed[s] = ""

C7_RoutedStep ==
    \A s \in Sessions :
        routed'[s] # routed[s] =>
            /\ routed[s] = ""
            /\ \E i \in AuditLines(s, "SUCCESS") : log[i].token = token[s]

C7_MintLogRoute == []C7_RoutedState /\ [][C7_RoutedStep]_vars

\* The analyst was routed, after the SUCCESS entry was written.
C7_Witness ==
    \E s \in Sessions :
        /\ routed[s] = "Analyst"
        /\ AuditLines(s, "SUCCESS") # {}
        /\ pc[s] = "done"

\* C8, as stated: the first wrong PIN ends the session, so a session reads
\* at most one PIN, one biometric input and one OTP.
C8_NoRetryAtAll ==
    \A s \in Sessions :
        /\ pinReads[s] <= 1 /\ scanReads[s] <= 1 /\ otpReads[s] <= 1
        /\ pc[s] = "verify_pin" => attempts[s] = 0

\* C8, amended: a factor that returned False ends the session as DENIED and
\* nothing runs after it; the biometric and the OTP input are read at most
\* once; verify_pin asks again after a wrong PIN and reads at most
\* MAX_ATTEMPTS PINs, every one before the last being wrong.
C8_RetryOnlyInsideVerifyPin ==
    \A s \in Sessions :
        /\ scanReads[s] <= 1 /\ otpReads[s] <= 1
        /\ pinReads[s] <= MAX_ATTEMPTS
        /\ WrongPins(s) >= pinReads[s] - 1
        /\ pc[s] = "verify_pin" =>
              attempts[s] = pinReads[s] /\ attempts[s] < MAX_ATTEMPTS
        /\ SomeFailed(s) =>
              /\ pc[s] = "DENIED"
              /\ ~returned[s][Len(returned[s])].ok
              /\ \A i \in 1 .. (Len(returned[s]) - 1) : returned[s][i].ok
        /\ (Len(returned[s]) >= 1 /\ ~returned[s][1].ok) =>
              pinReads[s] = MAX_ATTEMPTS

\* A session was denied by verify_pin after MAX_ATTEMPTS wrong PINs.
C8_Witness ==
    \E s \in Sessions :
        /\ pc[s] = "DENIED"
        /\ Len(returned[s]) = 1
        /\ pinReads[s] = MAX_ATTEMPTS

\* C9: when the audit write of a session that passed all factors fails, the
\* run ends in the error raised by the write: it is neither granted nor
\* denied and the router is not invoked; a granted or routed session has its
\* SUCCESS entry in the log.
C9_NoGrantWithoutAudit ==
    \A s \in Sessions :
        /\ (AllPassed(s) /\ pc[s] # "mint" /\ AuditLines(s, "SUCCESS") = {}) =>
              pc[s] = "error" /\ routed[s] = ""
        /\ (pc[s] \in {"granted", "done"} \/ routed[s] # "") =>
              AuditLines(s, "SUCCESS") # {}

\* All factors passed, the audit write failed, the run ended in error.
C9_Witness ==
    \E s \in Sessions :
        /\ AllPassed(s)
        /\ token[s] # None
        /\ pc[s] = "error"
        /\ AuditLines(s, "SUCCESS") = {}
        /\ routed[s] = ""

\* C10: with several sessions of one principal under way, the wrong PINs
\* compared with the stored hash over all of them number at most
\* MAX_ATTEMPTS for as long as the principal has not been locked out.  (That
\* a locked-out principal is not let in by another session is the statement
\* of C4, which speaks of every session.)
C10_LockoutNotDefeated ==
    \A p \in DOMAIN USER_DB :
        (\A t \in Sessions : username[t] = p => lockedAt[t] = None) =>
            SumWrongPins(Sessions, p) <= MAX_ATTEMPTS

\* Lines session s has written to the log so far, from where main stands:
\* the audit line once log_audit returned, the forensic line once
\* forensic_module returned.
LinesWrittenBy(s) ==
    (IF pc[s] \in {"granted", "done"} \/ routed[s] # "" THEN 1 ELSE 0)
    + (IF pc[s] = "done" /\ routed[s] = "Analyst" THEN 1 ELSE 0)

RECURSIVE SumLinesWritten(_)
SumLinesWritten(S) ==
    IF S = {} THEN 0
    ELSE LET s == CHOOSE x \in S : TRUE
         IN LinesWrittenBy(s) + SumLinesWritten(S \ {s})

\* C11, as stated: every entry of the log carries a sequence identifier, and
\* the identifiers increase by one from each entry to the next.
C11_SequenceIds ==
    /\ \A i \in DOMAIN log : "sequenceId" \in DOMAIN log[i]
    /\ \A i \in 1 .. (Len(log) - 1) :
          log[i + 1].sequenceId = log[i].sequenceId + 1

\* C11, amended: an entry has no sequence identifier, only the fields
\* log_audit and forensic_module format into the line; its place in the file
\* is what orders it.  With several sessions writing, the file holds one
\* line per completed write and no other, and the i-th line is the one the
\* i-th write recorded.
C11_PositionIsTheSequence ==
    /\ \A i \in DOMAIN log :
          \/ /\ log[i].tag = "AUDIT"
             /\ DOMAIN log[i] =
                   {"tag", "status", "username", "role", "timestamp", "token"}
             /\ log[i].token = token[writer[i]]
             /\ log[i].username = username[writer[i]]
          \/ /\ log[i].tag = "FORENSIC"
             /\ DOMAIN log[i] = {"tag", "evidence_id", "note"}
             /\ routed[writer[i]] = "Analyst"
    /\ Len(log) = Len(writer)
    /\ Len(log) = SumLinesWritten(Sessions)

\* Two sessions wrote in turn: audit line of one, audit line of the other,
\* forensic line of the first.
C11_Witness ==
    /\ Len(log) = 3
    /\ writer[1] = writer[3]
    /\ writer[2] # writer[1]
    /\ log[2].tag = "AUDIT"
    /\ log[3].tag = "FORENSIC"

\* The step session s can take next.
SessionNext(s) ==
    \/ Main(s)
    \/ VerifyPin(s)
    \/ SimulateBiometric(s)
    \/ SimulateOtp(s)
    \/ MintAndLog(s)
    \/ RouteToModule(s)

\* Prompts are answered and calls return: as long as some session can take
\* a step, some session eventually takes one.  Nothing is assumed about
\* which session it is.
AnySessionNext == \E s \in Sessions : SessionNext(s)

FairSpec == Spec /\ WF_vars(AnySessionNext)

\* An upper bound on the steps session s has left before main ends.
StepsLeft(s) ==
    CASE pc[s] = "start" -> MAX_ATTEMPTS + 5
      [] pc[s] = "verify_pin" -> (MAX_ATTEMPTS - attempts[s]) + 4
      [] pc[s] = "simulate_biometric" -> 4
      [] pc[s] = "simulate_otp" -> 3
      [] pc[s] = "mint" -> 2
      [] pc[s] = "granted" -> 1
      [] OTHER -> 0

\* C12, as stated: a session that can take no further step is GRANTED (main
\* returned after routing) or DENIED.
C12_OnlyGrantedOrDenied ==
    \A s \in Sessions :
        ~ENABLED SessionNext(s) => pc[s] \in {"done", "DENIED"}

\* The states main stops in stay as they are, so "every session ends" is
\* "at some time all sessions have ended".
C12_Finishes ==
    <>(\A s \in Sessions : pc[s] \in {"done", "DENIED", "error"})

\* A session that has ended stays as it ended; any other step of a session
\* brings it nearer to its end, a wrong PIN included.
C12_Progress ==
    \A s \in Sessions :
        /\ <<pc[s], attempts[s], pinReads[s], scanReads[s], otpReads[s],
              routed[s]>>' #
           <<pc[s], attempts[s], pinReads[s], scanReads[s], otpReads[s],
             routed[s]>> => StepsLeft(s)' < StepsLeft(s)
        /\ pc[s] \in {"done", "DENIED", "error"} => pc'[s] = pc[s]

\* C12, amended: when prompts are answered, every session ends GRANTED,
\* DENIED or in the error a failed log write raises; no session stops
\* anywhere else (a session stuck elsewhere would never end), and
\* verify_pin cannot go round for ever, since every step, a wrong PIN
\* included, uses up one of a bounded number of steps.
C12_Terminates == C12_Finishes /\ [][C12_Progress]_vars

\* A session ended in each of the three ways main can end in.
C12_Witness ==
    /\ \E s \in Sessions : pc[s] = "error" /\ ~ENABLED SessionNext(s)
    /\ \E s \in Sessions : pc[s] = "DENIED" /\ pinReads[s] = MAX_ATTEMPTS

\* C13: a SUCCESS entry records, and the router is handed, the role of the
\* session's own principal: Admin for admin, Analyst for analyst, Guest for
\* guest.
C13_RoleOfPrincipal ==
    LET Expected(u) == CASE u = "admin" -> "Admin"
                         [] u = "analyst" -> "Analyst"
                         [] u = "guest" -> "Guest"
                         [] OTHER -> "no role"
    IN /\ \A i \in DOMAIN log :
             (log[i].tag = "AUDIT" /\ log[i].status = "SUCCESS") =>
                 /\ log[i].username = username[writer[i]]
                 /\ log[i].role = Expected(log[i].username)
       /\ \A s \in Sessions :
             (pc[s] \in {"granted", "done"} \/ routed[s] # "") =>
                 role[s] = Expected(username[s])
       /\ \A s \in Sessions :
             routed[s] # "" => routed[s] = Expected(username[s])

\* An analyst and a guest were both granted and routed, each with its own
\* role.
C13_Witness ==
    \E s, t \in Sessions :
        /\ username[s] = "analyst" /\ routed[s] = "Analyst"
        /\ username[t] = "guest" /\ routed[t] = "Guest"
        /\ AuditLines(s, "SUCCESS") # {} /\ AuditLines(t, "SUCCESS") # {}

\* The wrong PINs session s has entered: the values `attempts` has counted.
FailedAttempts(s) == Cardinality({i \in DOMAIN pinRight[s] : ~pinRight[s][i]})

\* C14: at the loop head of verify_pin, with no lockout start recorded, the
\* failed-attempt count is below MAX_ATTEMPTS; the count never exceeds
\* MAX_ATTEMPTS.
C14_CountBelowMax ==
    \A s \in Sessions :
        /\ (pc[s] = "verify_pin" /\ lockout_start[s] = None) =>
              /\ attempts[s] \in 0 .. (MAX_ATTEMPTS - 1)
              /\ attempts[s] = FailedAttempts(s)
        /\ attempts[s] <= MAX_ATTEMPTS
        /\ FailedAttempts(s) <= MAX_ATTEMPTS

\* The loop head is evaluated with one attempt left.
C14_Witness ==
    \E s \in Sessions :
        /\ pc[s] = "verify_pin"
        /\ lockout_start[s] = None
        /\ attempts[s] = MAX_ATTEMPTS - 1
        /\ FailedAttempts(s) = MAX_ATTEMPTS - 1

\* C15: every step leaves the lines already in the log where they are and
\* as they are: the log before the step is a prefix of the log after it.
\* Step by step, the log at any earlier time is a prefix of the log at any
\* later time.
C15_AppendOnly ==
    [][/\ Len(log') >= Len(log)
       /\ SubSeq(log', 1, Len(log)) = log
       /\ Len(log') <= Len(log) + 1]_vars

\* Two sessions each wrote an audit line and a forensic line.
C15_Witness ==
    /\ Len(log) = 4
    /\ \E i, j \in DOMAIN log :
          i # j /\ log[i].tag = "FORENSIC" /\ log[j].tag = "FORENSIC"

\* C16: a verify_pin call that has returned read between 1 and MAX_ATTEMPTS
\* PINs, every one before the last being wrong; it returned True exactly
\* when the last PIN read is the principal's PIN, and False exactly when
\* MAX_ATTEMPTS PINs were read and all were wrong.  While the call is under
\* way every PIN read so far was wrong.
C16_VerifyPinResult ==
    \A s \in Sessions :
        LET n == Len(pinRight[s])
            allWrong == \A i \in 1 .. n : ~pinRight[s][i]
        IN /\ n = pinReads[s]
           /\ n <= MAX_ATTEMPTS
           /\ \A i \in 1 .. (n - 1) : ~pinRight[s][i]
           /\ pc[s] = "verify_pin" => allWrong /\ n < MAX_ATTEMPTS
           /\ Len(returned[s]) >= 1 =>
                 /\ n >= 1
                 /\ returned[s][1].fn = "verify_pin"
                 /\ returned[s][1].ok <=> pinRight[s][n]
                 /\ ~returned[s][1].ok <=> (n = MAX_ATTEMPTS /\ allWrong)

\* verify_pin returned True on the last PIN it could read, and, in another
\* session, False after MAX_ATTEMPTS wrong PINs.
C16_Witness ==
    \E s, t \in Sessions :
        /\ Len(returned[s]) >= 1 /\ returned[s][1].ok
        /\ pinRight[s] = <<FALSE, FALSE, TRUE>>
        /\ Len(returned[t]) = 1 /\ ~returned[t][1].ok
        /\ pinRight[t] = <<FALSE, FALSE, FALSE>>

\* C17: whenever verify_pin evaluates its lockout check, lockout_start is
\* unset, in a later session of a principal that was locked out as well; a
\* call that has set lockout_start has returned; and verify_pin never
\* returns False by the "Account locked" branch, only after MAX_ATTEMPTS
\* wrong PINs.
C17_LockedBranchDead ==
    \A s \in Sessions :
        /\ pc[s] = "verify_pin" => lockout_start[s] = None
        /\ lockout_start[s] # None =>
              /\ pc[s] = "DENIED"
              /\ attempts[s] = MAX_ATTEMPTS
              /\ lockout_start[s] = lockedAt[s]
        /\ (Len(returned[s]) >= 1 /\ ~returned[s][1].ok) =>
              /\ lockout_start[s] # None
              /\ pinReads[s] = MAX_ATTEMPTS

\* A session checks for a lockout, after a wrong PIN and after time has
\* passed, while an earlier session of the same principal has announced
\* one.
C17_Witness ==
    \E s, t \in Sessions :
        /\ username[s] = username[t]
        /\ lockout_start[t] # None
        /\ now - lockout_start[t] < LOCKOUT_DURATION
        /\ now > lockout_start[t]
        /\ pc[s] = "verify_pin"
        /\ attempts[s] = 1

\* C18: a FORENSIC line in the log was written by a session of the analyst
\* whose three factors passed and whose role is Analyst, and that session's
\* SUCCESS line stands before it in the log; a session of another role, or
\* one that was denied or failed a factor, has written none.
C18_ForensicOnlyAnalyst ==
    /\ \A i \in DOMAIN log :
          log[i].tag = "FORENSIC" =>
              /\ username[writer[i]] = "analyst"
              /\ role[writer[i]] = "Analyst"
              /\ AllPassed(writer[i])
              /\ \E j \in AuditLines(writer[i], "SUCCESS") : j < i
    /\ \A s \in Sessions :
          (username[s] # "analyst" \/ pc[s] = "DENIED" \/ SomeFailed(s)) =>
              \A i \in DOMAIN log : writer[i] = s => log[i].tag # "FORENSIC"

\* An admin and an analyst were both granted and routed; the log holds the
\* analyst's forensic line.
C18_Witness ==
    \E s, t \in Sessions :
        /\ routed[s] = "Admin" /\ pc[s] = "done"
        /\ routed[t] = "Analyst" /\ pc[t] = "done"
        /\ \E i \in DOMAIN log : writer[i] = t /\ log[i].tag = "FORENSIC"

\* C19: no lookup meets a missing key: from the call of verify_pin on, the
\* session's username is a key of USER_DB; where main looks the role up, and
\* after, it is a key of USER_ROLES; no session ends in a KeyError.
C19_NoMissingKey ==
    \A s \in Sessions :
        /\ pc[s] # "KeyError"
        /\ (pc[s] = "verify_pin" \/ Len(returned[s]) >= 1 \/ pinReads[s] > 0) =>
              username[s] \in DOMAIN USER_DB
        /\ (pc[s] \in {"mint", "granted", "done"} \/ role[s] # "") =>
              username[s] \in DOMAIN USER_ROLES

\* One session is inside verify_pin, another has had its role looked up.
C19_Witness ==
    \E s, t \in Sessions :
        /\ pc[s] = "verify_pin" /\ pinReads[s] > 0
        /\ pc[t] = "granted" /\ role[t] = "Guest"

====
